---------------------------- MODULE Spec2Model ----------------------------
(***************************************************************************)
(* A model of extract_keywords.py: the value normalizer, the cluster       *)
(* classifier, the local keyword aggregator, the remote keyword fetcher    *)
(* with its bounded retry loop, and the __main__ pipeline that composes    *)
(* them over a project table.                                              *)
(*                                                                         *)
(* Python strings are sequences of one-character strings, so that split,   *)
(* strip, startswith, replace and float() are computed character by        *)
(* character as the interpreter computes them.                             *)
(***************************************************************************)
EXTENDS Integers, Sequences, FiniteSets, TLC

VARIABLES
    pc,                  \* the position of the running code
    arg,                 \* the argument of the function under call
    retval,              \* what the function under call returned
    attempts,            \* get_cordis_keywords: GETs issued by the current call
    res,                 \* get_cordis_keywords: the local variable res
    history,             \* get_cordis_keywords: the outcome of each GET of the current call
    args_clusters,       \* __main__: args.clusters
    clusters,            \* __main__: the variable clusters
    project_df,          \* __main__: the project table
    euroscivoc_df,       \* the keyword-entry table
    euroscivoc_keywords, \* __main__: the grouped keyword table
    row,                 \* __main__: the row progress_apply is at
    fetched,             \* __main__: the identifiers get_cordis_keywords was called with
    before_filter,       \* __main__: the project table as the filter step found it
    project_csv,         \* the rows of the project file
    out_file             \* the table written to ./out/extracted.csv

vars == <<pc, arg, retval, attempts, res, history, args_clusters, clusters,
          project_df, euroscivoc_df, euroscivoc_keywords, row, fetched,
          before_filter, project_csv, out_file>>

fetch_vars == <<attempts, res, history>>
main_vars == <<args_clusters, clusters, project_df, euroscivoc_keywords, row,
               fetched, before_filter, out_file>>

(***************************************************************************)
(* Bounds of the model.                                                    *)
(***************************************************************************)
MaxContentEntries == 2
MaxTopicSegments == 4
MaxKeywordEntries == 3
MaxRows == 2

(***************************************************************************)
(* Python values.                                                          *)
(***************************************************************************)
None == [tag |-> "None"]
NaN == [tag |-> "nan"]
PyStr(s) == [tag |-> "str", val |-> s]
PyList(l) == [tag |-> "list", val |-> l]
Raised(e) == [tag |-> "raise", val |-> e]

s_HORIZON == <<"H", "O", "R", "I", "Z", "O", "N">>
s_ERC == <<"E", "R", "C">>
s_EURATOM == <<"E", "U", "R", "A", "T", "O", "M">>
s_ERROR == <<"E", "R", "R", "O", "R">>
s_NOT_FOUND == <<"N", "O", "T", " ", "F", "O", "U", "N", "D">>
s_all == <<"a", "l", "l">>

Whitespace == {" ", "\t", "\n"}

\* str.startswith
startswith(s, prefix) ==
    /\ Len(s) >= Len(prefix)
    /\ SubSeq(s, 1, Len(prefix)) = prefix

\* str.split(sep), sep one character
RECURSIVE split(_, _)
split(s, sep) ==
    IF \A i \in 1..Len(s) : s[i] # sep
    THEN <<s>>
    ELSE LET i == CHOOSE j \in 1..Len(s) :
                      s[j] = sep /\ \A k \in 1..(j - 1) : s[k] # sep
         IN  <<SubSeq(s, 1, i - 1)>> \o split(SubSeq(s, i + 1, Len(s)), sep)

\* sep.join(parts)
RECURSIVE join(_, _)
join(sep, parts) ==
    IF parts = <<>> THEN <<>>
    ELSE IF Len(parts) = 1 THEN parts[1]
    ELSE parts[1] \o sep \o join(sep, Tail(parts))

\* str.strip()
RECURSIVE strip(_)
strip(s) ==
    IF s = <<>> THEN s
    ELSE IF s[1] \in Whitespace THEN strip(Tail(s))
    ELSE IF s[Len(s)] \in Whitespace THEN strip(SubSeq(s, 1, Len(s) - 1))
    ELSE s

\* str.replace(old, new), old and new one character
replace(s, old, new) == [i \in 1..Len(s) |-> IF s[i] = old THEN new ELSE s[i]]

\* list(a_set): the order of a set's elements is the interpreter's choice
list_of_set(S) ==
    {l \in [1..Cardinality(S) -> S] : \A i, j \in 1..Cardinality(S) : l[i] = l[j] => i = j}

Range(l) == {l[i] : i \in 1..Len(l)}

\* the sequences over S of length lo..hi
RECURSIVE SeqsUpTo(_, _, _)
SeqsUpTo(S, lo, hi) ==
    IF hi < lo THEN {}
    ELSE [1..hi -> S] \cup SeqsUpTo(S, lo, hi - 1)

(***************************************************************************)
(* get_cordis_keywords (lines 35-61).                                      *)
(***************************************************************************)
MaxAttempts == 3

\* requests.Response.ok, as line 46 and line 49 read it
ok(r) == ~(400 <= r.status_code /\ r.status_code < 600)

\* what res is after a GET that raised (lines 42-44)
on_exception_status_200 == [kind |-> "response", status_code |-> 200, text |-> <<>>]
on_exception == [kind |-> "response", status_code |-> 408, text |-> <<>>]

\* res after one pass of the loop body (lines 40-44)
attempt_result(outcome) ==
    IF outcome.kind = "exception" THEN on_exception ELSE outcome

\* whether the loop goes round again after a pass that left res = r (lines 39, 46-47)
loop_again_ignoring_ok(r, n) == n < MaxAttempts
loop_again_once_more(r, n) == ~ok(r) /\ n < MaxAttempts + 1
loop_again(r, n) == ~ok(r) /\ n < MaxAttempts

\* soup.find("meta", attrs={"name": "keywords"}) (line 54)
find_keywords_meta(page) ==
    IF \E i \in 1..Len(page) : page[i].name = "keywords"
    THEN LET i == CHOOSE j \in 1..Len(page) :
                      page[j].name = "keywords" /\ \A k \in 1..(j - 1) : page[k].name # "keywords"
         IN  page[i]
    ELSE None

\* the set built on line 59
keywords_set(content) ==
    {strip(kw) : kw \in {k \in Range(split(content, ",")) :
                            k # <<>> /\ ~startswith(k, s_HORIZON)}}

\* the values lines 49-61 may return for the res the loop left
not_found == PyStr(s_NOT_FOUND)

cordis_returns_unchecked(r) ==
    LET keywords_soup == find_keywords_meta(r.text)
    IN  IF keywords_soup = None THEN {not_found}
        ELSE {PyList(l) : l \in list_of_set(keywords_set(keywords_soup.content))}
cordis_returns(r) ==
    IF ~ok(r) THEN {PyStr(s_ERROR)}
    ELSE LET keywords_soup == find_keywords_meta(r.text)
         IN  IF keywords_soup = None THEN {not_found}
             ELSE {PyList(l) : l \in list_of_set(keywords_set(keywords_soup.content))}

(***************************************************************************)
(* What the registry may answer to one GET.                                *)
(***************************************************************************)
s_Health == <<"H", "e", "a", "l", "t", "h">>
s_AI == <<"A", "I">>
s_HORIZON_test == s_HORIZON \o <<"-", "t", "e", "s", "t">>
s_Adaptation == <<"A", "d", "a", "p", "t", "a", "t", "i", "o", "n">>

Entries ==
    {s_Health, <<" ">> \o s_Health, s_HORIZON_test, <<" ">> \o s_HORIZON_test,
     <<" ">> \o s_AI, <<>>, <<" ">>}

\* "Health, HORIZON-test, AI, Health"
ExampleContent ==
    join(<<",">>, <<s_Health, <<" ">> \o s_HORIZON_test, <<" ">> \o s_AI, <<" ">> \o s_Health>>)

Contents ==
    {join(<<",">>, es) : es \in SeqsUpTo(Entries, 1, MaxContentEntries)} \cup {ExampleContent}

meta(name, content) == [name |-> name, content |-> content]
description_meta == meta("description", s_Health)

Pages ==
    {<<>>, <<description_meta>>}
        \cup {<<description_meta, meta("keywords", c)>> : c \in Contents}

exception == [kind |-> "exception", status_code |-> 0, text |-> <<>>]
response(status, page) == [kind |-> "response", status_code |-> status, text |-> page]

FetchOutcomes ==
    {exception}
        \cup {response(s, p) : s \in {404, 503}, p \in {<<>>, <<meta("keywords", s_AI)>>}}
        \cup {response(200, p) : p \in Pages}
        \cup {response(304, <<>>)}

(***************************************************************************)
(* get_cordis_keywords, one pass of the loop body at a time: the registry  *)
(* decides the outcome of each GET.                                        *)
(***************************************************************************)
requests_get(outcomes) ==
    /\ pc = "get"
    /\ \E outcome \in outcomes :
        /\ res' = attempt_result(outcome)
        /\ history' = Append(history, outcome)
    /\ attempts' = attempts + 1
    /\ pc' = IF loop_again(res', attempts') THEN "get" ELSE "check"
    /\ UNCHANGED <<arg, retval, project_csv, euroscivoc_df>>
    /\ UNCHANGED main_vars

cordis_return ==
    /\ pc = "check"
    /\ retval' \in cordis_returns(res)
    /\ pc' = "returned"
    /\ UNCHANGED <<arg, project_csv, euroscivoc_df>>
    /\ UNCHANGED fetch_vars
    /\ UNCHANGED main_vars

s_P1 == <<"P", "1">>
s_P2 == <<"P", "2">>
s_P3 == <<"P", "3">>

MainIdle ==
    /\ args_clusters = None
    /\ clusters = None
    /\ project_df = <<>>
    /\ euroscivoc_keywords = None
    /\ row = 0
    /\ fetched = <<>>
    /\ before_filter = None
    /\ out_file = None

FetchIdle ==
    /\ attempts = 0
    /\ res = None
    /\ history = <<>>

InitFetch ==
    /\ pc = "get"
    /\ arg \in {s_P1, s_P2}
    /\ retval = None
    /\ project_csv = <<>>
    /\ euroscivoc_df = <<>>
    /\ FetchIdle
    /\ MainIdle

FetchGet == requests_get(FetchOutcomes)

NextFetch == FetchGet \/ cordis_return

SpecFetch == InitFetch /\ [][NextFetch]_vars

(***************************************************************************)
(* The claims about get_cordis_keywords, checked under SpecFetch.          *)
(***************************************************************************)
Failed(outcome) ==
    \/ outcome.kind = "exception"
    \/ outcome.status_code \in 400..599
Succeeded(outcome) == ~Failed(outcome)
AllFailed(h) == \A i \in 1..Len(h) : Failed(h[i])
HasKeywordsMeta(page) == \E i \in 1..Len(page) : page[i].name = "keywords"
FirstKeywordsContent(page) ==
    page[CHOOSE i \in 1..Len(page) :
            page[i].name = "keywords" /\ \A k \in 1..(i - 1) : page[k].name # "keywords"].content
Last(h) == h[Len(h)]

\* C1: when every attempt fails, "ERROR" is returned after exactly 3 GETs (never
\* fewer, never a 4th), and "ERROR" is returned only when no attempt succeeded.
C1_ErrorAfterExactlyThree ==
    /\ attempts = Len(history)
    /\ attempts <= 3
    /\ (pc \in {"check", "returned"} /\ AllFailed(history)) => attempts = 3
    /\ (pc = "returned" /\ AllFailed(history)) => retval = PyStr(s_ERROR)
    /\ (pc = "returned" /\ retval = PyStr(s_ERROR)) => (AllFailed(history) /\ attempts = 3)

C1_Witness ==
    /\ pc = "returned"
    /\ retval = PyStr(s_ERROR)
    /\ attempts = 3
    /\ AllFailed(history)

\* C2: the loop stops at the first successful attempt: a successful GET is the
\* last GET, so a first success at attempt k means exactly k GETs, and the value
\* returned is computed from that response and is not "ERROR".
C2_StopsAtFirstSuccess ==
    /\ \A i \in 1..Len(history) : Succeeded(history[i]) => (i = Len(history) /\ i = attempts)
    /\ (history # <<>> /\ Succeeded(Last(history))) =>
        /\ pc # "get"
        /\ res = Last(history)
        /\ pc = "returned" =>
            /\ retval # PyStr(s_ERROR)
            /\ IF HasKeywordsMeta(Last(history).text)
               THEN /\ retval.tag = "list"
                    /\ Range(retval.val) = keywords_set(FirstKeywordsContent(Last(history).text))
               ELSE retval = PyStr(s_NOT_FOUND)

C2_Witness ==
    /\ pc = "returned"
    /\ Len(history) = 3
    /\ Failed(history[1])
    /\ Failed(history[2])
    /\ Succeeded(history[3])
    /\ retval.tag = "list"
    /\ Range(retval.val) = {s_Health, s_AI}

\* C3: for a successful response with keywords content c the returned list holds,
\* without duplicates, exactly the trimmed entries of c that are neither empty nor
\* begin with "HORIZON"; "Health, HORIZON-test, AI, Health" gives {"Health", "AI"}.
TrimmedKept(content) ==
    {e \in {strip(kw) : kw \in Range(split(content, ","))} :
        e # <<>> /\ ~startswith(e, s_HORIZON)}

C3_TrimThenDiscard ==
    (/\ pc = "returned"
     /\ Succeeded(Last(history))
     /\ HasKeywordsMeta(Last(history).text)) =>
        LET content == FirstKeywordsContent(Last(history).text)
        IN  /\ retval.tag = "list"
            /\ Range(retval.val) = TrimmedKept(content)
            /\ Len(retval.val) = Cardinality(TrimmedKept(content))
            /\ \A i \in 1..Len(retval.val) :
                retval.val[i] # <<>> /\ ~startswith(retval.val[i], s_HORIZON)
            /\ content = ExampleContent => Range(retval.val) = {s_Health, s_AI}

\* the attempts of a call with every raising GET replaced by an HTTP error
AsHttpErrors(h) ==
    [i \in 1..Len(h) |-> IF h[i].kind = "exception" THEN response(503, <<>>) ELSE h[i]]

\* C5: a GET that raises is a failed attempt like any HTTP error: it leaves a
\* non-ok res, control stays in the function at the place an HTTP error would
\* leave it, any mix of the two kinds of failure over 3 attempts returns "ERROR",
\* and the number of GETs and the value returned are those of the same attempts
\* with each raising GET replaced by an HTTP error.
C5_ExceptionIsFailedAttempt ==
    /\ pc \in {"get", "check", "returned"}
    /\ \A i \in 1..Len(history) : Failed(history[i]) =>
        /\ i < 3 => (Len(history) > i \/ pc = "get")
        /\ i = 3 => pc \in {"check", "returned"}
    /\ (history # <<>> /\ Failed(Last(history))) =>
        /\ ~ok(res)
        /\ pc = "get" <=> attempts < 3
        /\ pc = "returned" => (retval = PyStr(s_ERROR) /\ attempts = 3)
    /\ (history # <<>> /\ Last(history).kind = "exception") => res.status_code = 408
    /\ pc = "returned" =>
        LET folded == AsHttpErrors(history)
        IN  /\ attempts = Len(folded)
            /\ Len(folded) = 3 \/ Succeeded(Last(folded))
            /\ \A i \in 1..(Len(folded) - 1) : Failed(folded[i])
            /\ retval \in cordis_returns(Last(folded))

C5_Witness ==
    /\ pc = "returned"
    /\ retval = PyStr(s_ERROR)
    /\ Len(history) = 3
    /\ \E i, j \in 1..3 : history[i].kind = "exception" /\ history[j].kind = "response"

\* C6: a successful response whose page has no meta element named "keywords"
\* gives "NOT FOUND", however many attempts failed before it, and "NOT FOUND" is
\* never returned when every attempt failed.
C6_NotFound ==
    pc = "returned" =>
        /\ (Succeeded(Last(history)) /\ ~HasKeywordsMeta(Last(history).text)) =>
            retval = PyStr(s_NOT_FOUND)
        /\ retval = PyStr(s_NOT_FOUND) =>
            (Succeeded(Last(history)) /\ ~HasKeywordsMeta(Last(history).text))

C6_Witness ==
    /\ pc = "returned"
    /\ retval = PyStr(s_NOT_FOUND)
    /\ Len(history) = 3
    /\ Failed(history[1])
    /\ Failed(history[2])

(***************************************************************************)
(* get_cluster (lines 20-28).                                              *)
(***************************************************************************)
\* a_list[i], i >= 0
py_index(l, i) == IF i < Len(l) THEN PyStr(l[i + 1]) ELSE Raised("IndexError")

\* a_list[2:-1]
py_slice_2_to_last(l) == SubSeq(l, 3, Len(l) - 1)

\* "prefix" + x, where evaluating x may have raised
concat(prefix, x) == IF x.tag = "raise" THEN x ELSE PyStr(prefix \o x.val)

get_cluster_erc_second_segment(topic) ==
    IF startswith(topic, s_HORIZON)
    THEN concat(s_HORIZON \o <<"-">>, py_index(split(topic, "-"), 1))
    ELSE IF startswith(topic, s_ERC)
    THEN concat(s_ERC \o <<"-">>, py_index(split(topic, "-"), 1))
    ELSE IF startswith(topic, s_EURATOM)
    THEN PyStr(s_EURATOM \o <<"-">> \o join(<<"-">>, py_slice_2_to_last(split(topic, "-"))))
    ELSE PyStr(topic)
get_cluster(topic) ==
    IF startswith(topic, s_HORIZON)
    THEN concat(s_HORIZON \o <<"-">>, py_index(split(topic, "-"), 1))
    ELSE IF startswith(topic, s_ERC)
    THEN concat(s_ERC \o <<"-">>, py_index(split(topic, "-"), 2))
    ELSE IF startswith(topic, s_EURATOM)
    THEN PyStr(s_EURATOM \o <<"-">> \o join(<<"-">>, py_slice_2_to_last(split(topic, "-"))))
    ELSE PyStr(topic)

s_CL1 == <<"C", "L", "1">>
s_CL2 == <<"C", "L", "2">>
s_01 == <<"0", "1">>
s_02 == <<"0", "2">>
s_STG == <<"S", "T", "G">>

FirstSegments == {s_HORIZON, s_ERC, s_EURATOM, s_HORIZON \o <<"X">>, s_CL1}
OtherSegments == {s_CL1, s_01, s_02, <<>>}

\* topic identifiers of 1..MaxTopicSegments hyphen-delimited segments
Topics ==
    {join(<<"-">>, <<f>> \o rest) :
        f \in FirstSegments, rest \in SeqsUpTo(OtherSegments, 0, MaxTopicSegments - 1)}

InitCluster ==
    /\ pc = "call"
    /\ arg \in Topics
    /\ retval = None
    /\ project_csv = <<>>
    /\ euroscivoc_df = <<>>
    /\ FetchIdle
    /\ MainIdle

call_get_cluster ==
    /\ pc = "call"
    /\ retval' = get_cluster(arg)
    /\ pc' = "returned"
    /\ UNCHANGED <<arg, project_csv, euroscivoc_df>>
    /\ UNCHANGED fetch_vars
    /\ UNCHANGED main_vars

NextCluster == call_get_cluster

SpecCluster == InitCluster /\ [][NextCluster]_vars

Hyphens(s) == Cardinality({i \in 1..Len(s) : s[i] = "-"})

\* C7 as stated: get_cluster returns a label for every topic identifier, the
\* short HORIZON and ERC identifiers included.
C7_Total == pc = "returned" => retval.tag = "str"

\* C7 as amended: get_cluster returns a label for every topic identifier but a
\* HORIZON one without a hyphen and an ERC one with fewer than two hyphens, where
\* it raises IndexError; the EURATOM rule and the fallback never fail, and the
\* outcome is fixed by the topic.
C7_TotalButShortHorizonErc ==
    pc = "returned" =>
        /\ retval.tag \in {"str", "raise"}
        /\ retval.tag = "raise" <=>
            \/ startswith(arg, s_HORIZON) /\ Hyphens(arg) < 1
            \/ startswith(arg, s_ERC) /\ Hyphens(arg) < 2
        /\ retval.tag = "raise" => retval = Raised("IndexError")
        /\ (startswith(arg, s_HORIZON) /\ Hyphens(arg) >= 1) =>
            retval = PyStr(s_HORIZON \o <<"-">> \o split(arg, "-")[2])
        /\ (startswith(arg, s_ERC) /\ Hyphens(arg) >= 2) =>
            retval = PyStr(s_ERC \o <<"-">> \o split(arg, "-")[3])
        /\ startswith(arg, s_EURATOM) =>
            /\ retval.tag = "str"
            /\ startswith(retval.val, s_EURATOM \o <<"-">>)
            /\ Hyphens(arg) < 3 => retval.val = s_EURATOM \o <<"-">>
        /\ (\A p \in {s_HORIZON, s_ERC, s_EURATOM} : ~startswith(arg, p)) =>
            retval = PyStr(arg)

C7_Witness ==
    /\ pc = "returned"
    /\ arg = s_ERC \o <<"-">> \o s_CL1
    /\ retval = Raised("IndexError")

(***************************************************************************)
(* get_euroscivoc_keywords (lines 31-32) and the grouping of line 110.     *)
(***************************************************************************)
RECURSIVE select_titles(_, _)
select_titles(project_id, df) ==
    IF df = <<>> THEN <<>>
    ELSE IF df[1].projectID = project_id
    THEN <<df[1].euroSciVocTitle>> \o select_titles(project_id, Tail(df))
    ELSE select_titles(project_id, Tail(df))

get_euroscivoc_keywords_first_match(project_id, df) ==
    LET titles == select_titles(project_id, df)
    IN  IF titles = <<>> THEN <<>> ELSE <<titles[1]>>
get_euroscivoc_keywords(project_id, df) == select_titles(project_id, df)

\* euroscivoc_df.groupby("projectID")["euroSciVocTitle"].apply(list): the table is
\* walked once and each title appended to its identifier's group.  The grouped
\* table is keyed by identifier; the order of its rows is not read by the merge.
RECURSIVE groupby_apply_list(_)
groupby_apply_list(df) ==
    IF df = <<>> THEN [k \in {} |-> <<>>]
    ELSE LET groups == groupby_apply_list(SubSeq(df, 1, Len(df) - 1))
             e == df[Len(df)]
         IN  IF e.projectID \in DOMAIN groups
             THEN [groups EXCEPT ![e.projectID] = Append(@, e.euroSciVocTitle)]
             ELSE groups @@ (e.projectID :> <<e.euroSciVocTitle>>)

s_Climate == <<"C", "l", "i", "m", "a", "t", "e">>
s_Soil == <<"S", "o", "i", "l">>

Ids == {s_P1, s_P2, s_P3}
keyword_entry(id, title) == [projectID |-> id, euroSciVocTitle |-> title]
KeywordEntries == {keyword_entry(id, t) : id \in Ids, t \in {s_Climate, s_Soil}}
KeywordTables == SeqsUpTo(KeywordEntries, 0, MaxKeywordEntries)

InitAggregator ==
    /\ pc = "call"
    /\ arg \in Ids
    /\ retval = None
    /\ project_csv = <<>>
    /\ euroscivoc_df \in KeywordTables
    /\ FetchIdle
    /\ MainIdle

call_get_euroscivoc_keywords ==
    /\ pc = "call"
    /\ retval' = PyList(get_euroscivoc_keywords(arg, euroscivoc_df))
    /\ pc' = "returned"
    /\ UNCHANGED <<arg, project_csv, euroscivoc_df>>
    /\ UNCHANGED fetch_vars
    /\ UNCHANGED main_vars

group_keywords ==
    /\ pc = "returned"
    /\ euroscivoc_keywords' = groupby_apply_list(euroscivoc_df)
    /\ pc' = "grouped"
    /\ UNCHANGED <<arg, retval, project_csv, euroscivoc_df, args_clusters, clusters,
                   project_df, row, fetched, before_filter, out_file>>
    /\ UNCHANGED fetch_vars

NextAggregator == call_get_euroscivoc_keywords \/ group_keywords

SpecAggregator == InitAggregator /\ [][NextAggregator]_vars

MatchingRows(id, df) == {i \in 1..Len(df) : df[i].projectID = id}
\* the k-th smallest element of a set of numbers
Kth(S, k) == CHOOSE i \in S : Cardinality({j \in S : j < i}) = k - 1
IdsIn(df) == {df[i].projectID : i \in 1..Len(df)}
RECURSIVE SumLen(_, _, _)
SumLen(S, id_list, df) ==
    IF S = {} THEN 0
    ELSE LET id == CHOOSE x \in S : TRUE
         IN  Len(id_list[id]) + SumLen(S \ {id}, id_list, df)

\* C10: the list returned for an identifier is the titles of the entries with that
\* identifier, in collection order (empty when none match); over the identifiers
\* of the collection the lists hold every entry exactly once; and the grouped
\* table gives each identifier the list get_euroscivoc_keywords returns for it.
C10_AggregatorPartitions ==
    pc = "grouped" =>
        LET df == euroscivoc_df
            rows == MatchingRows(arg, df)
            returned == [id \in IdsIn(df) |-> get_euroscivoc_keywords(id, df)]
        IN  /\ retval.tag = "list"
            /\ Len(retval.val) = Cardinality(rows)
            /\ \A k \in 1..Len(retval.val) :
                retval.val[k] = df[Kth(rows, k)].euroSciVocTitle
            /\ arg \notin IdsIn(df) => retval.val = <<>>
            /\ arg \in IdsIn(df) => retval.val = returned[arg]
            /\ SumLen(IdsIn(df), returned, df) = Len(df)
            /\ \A i \in 1..Len(df) :
                LET id == df[i].projectID
                    k == Cardinality({j \in MatchingRows(id, df) : j <= i})
                IN  /\ k <= Len(returned[id])
                    /\ returned[id][k] = df[i].euroSciVocTitle
            /\ DOMAIN euroscivoc_keywords = IdsIn(df)
            /\ \A id \in IdsIn(df) : euroscivoc_keywords[id] = returned[id]

C10_Witness ==
    /\ pc = "grouped"
    /\ Len(euroscivoc_df) = 3
    /\ Cardinality(IdsIn(euroscivoc_df)) = 2
    /\ euroscivoc_df[1].projectID = arg
    /\ euroscivoc_df[3].projectID = arg
    /\ retval.val = <<s_Soil, s_Climate>>

(***************************************************************************)
(* convert_to_float (lines 10-17).                                         *)
(***************************************************************************)
PyInt(n) == [tag |-> "int", val |-> n]
\* the float num / 10^scale, num not a multiple of 10 unless scale = 0
PyFloat(num, scale) == [tag |-> "float", num |-> num, scale |-> scale]

Digits == {"0", "1", "2", "3", "4", "5", "6", "7", "8", "9"}
digit_value(c) ==
    CASE c = "0" -> 0 [] c = "1" -> 1 [] c = "2" -> 2 [] c = "3" -> 3 [] c = "4" -> 4
      [] c = "5" -> 5 [] c = "6" -> 6 [] c = "7" -> 7 [] c = "8" -> 8 [] c = "9" -> 9
digit_char(d) == <<"0", "1", "2", "3", "4", "5", "6", "7", "8", "9">>[d + 1]

RECURSIVE digits_value(_)
digits_value(s) ==
    IF s = <<>> THEN 0
    ELSE 10 * digits_value(SubSeq(s, 1, Len(s) - 1)) + digit_value(s[Len(s)])

RECURSIVE strip_trailing_zeros(_)
strip_trailing_zeros(s) ==
    IF s # <<>> /\ s[Len(s)] = "0" THEN strip_trailing_zeros(SubSeq(s, 1, Len(s) - 1)) ELSE s

\* str(n), n an int >= 0
RECURSIVE str_of_int(_)
str_of_int(n) ==
    IF n < 10 THEN <<digit_char(n)>>
    ELSE str_of_int(n \div 10) \o <<digit_char(n % 10)>>

\* str(val)
str(val) == IF val.tag = "int" THEN str_of_int(val.val) ELSE val.val

\* float(s) over signs, digits and the decimal point: surrounding whitespace is
\* dropped, then an optional sign, then digits with at most one "." among them
float(s) ==
    LET t == strip(s)
        signed == t # <<>> /\ t[1] \in {"+", "-"}
        u == IF signed THEN Tail(t) ELSE t
        dots == {i \in 1..Len(u) : u[i] = "."}
        well_formed ==
            /\ \A i \in 1..Len(u) : u[i] \in Digits \cup {"."}
            /\ Cardinality(dots) <= 1
            /\ \E i \in 1..Len(u) : u[i] \in Digits
    IN  IF ~well_formed THEN Raised("ValueError")
        ELSE LET parts == split(u, ".")
                 whole == parts[1]
                 frac == IF Len(parts) = 2 THEN strip_trailing_zeros(parts[2]) ELSE <<>>
                 magnitude == digits_value(whole \o frac)
             IN  PyFloat(IF signed /\ t[1] = "-" THEN 0 - magnitude ELSE magnitude, Len(frac))

\* pd.isna
isna(val) == val.tag \in {"nan", "None"}

convert_to_float(val) ==
    IF isna(val) THEN None
    ELSE LET parsed == float(replace(str(val), ",", "."))
         IN  IF parsed.tag = "raise" THEN val ELSE parsed

(***************************************************************************)
(* __main__ (lines 64-123).                                                *)
(***************************************************************************)
\* int(c) of line 82 with the range test of lines 83-84, c one character
cluster_digit(c) ==
    IF c \notin Digits THEN Raised("ValueError")
    ELSE IF digit_value(c) < 1 \/ digit_value(c) > 6 THEN Raised("ValueError")
    ELSE PyInt(digit_value(c))

\* the value of clusters after lines 76-87, or the call of parser.error
parse_clusters(a) ==
    IF a = s_all THEN PyStr(s_all)
    ELSE IF \E i \in 1..Len(a) : cluster_digit(a[i]).tag = "raise"
    THEN Raised("parser.error")
    ELSE PyList([i \in 1..Len(a) |-> <<"C", "L">> \o str_of_int(cluster_digit(a[i]).val)])

\* project_df.loc[project_df.cluster.isin(clusters)] under the test of line 104
isin(value, values) == \E i \in 1..Len(values) : values[i] = value
filter_rows_all_as_none(df, cl) ==
    IF cl # PyStr(s_all)
    THEN SelectSeq(df, LAMBDA r : isin(r.cluster, cl.val))
    ELSE <<>>
filter_rows(df, cl) ==
    IF cl # PyStr(s_all)
    THEN SelectSeq(df, LAMBDA r : isin(r.cluster, cl.val))
    ELSE df

\* project_df.merge(euroscivoc_keywords, how="left", left_on="id",
\* right_on="projectID").drop(columns=["projectID"]) (line 111)
with_column(r, name, value) == (name :> value) @@ r
merge_inner(df, grouped) ==
    LET kept == SelectSeq(df, LAMBDA r : r.id \in DOMAIN grouped)
    IN  [i \in 1..Len(kept) |->
            with_column(kept[i], "euroscivoc_keywords", PyList(grouped[kept[i].id]))]
merge_left(df, grouped) ==
    [i \in 1..Len(df) |->
        with_column(df[i], "euroscivoc_keywords",
                    IF df[i].id \in DOMAIN grouped THEN PyList(grouped[df[i].id]) ELSE NaN)]

s_contribution == <<"1", ".", "2", "3", "4", ",", "5", "6">>
s_topic == join(<<"-">>, <<s_HORIZON, s_CL1, s_01, s_02>>)

project_row(id, contribution, topics) ==
    [id |-> id, ecMaxContribution |-> contribution, topics |-> topics]

ExampleRow == project_row(s_P1, PyStr(s_contribution), s_topic)

ProjectRows ==
    {ExampleRow,
     project_row(s_P2, NaN, s_CL2),
     project_row(s_P3, PyStr(<<"1", "2", ",", "5">>), join(<<"-">>, <<s_ERC, s_01, s_STG>>)),
     project_row(s_P2, PyInt(7), s_HORIZON)}

ProjectTables == SeqsUpTo(ProjectRows, 0, MaxRows)

ExampleKeywords == <<keyword_entry(s_P1, s_Climate)>>

PipelineKeywordTables ==
    {<<>>,
     ExampleKeywords,
     <<keyword_entry(s_P2, s_Soil), keyword_entry(s_P1, s_Climate), keyword_entry(s_P1, s_Soil)>>}

ArgsClusters == {s_all, <<>>, <<"1">>, <<"1", "2">>, <<"7">>}

PipelineOutcomes ==
    {exception, response(404, <<>>), response(200, <<>>),
     response(200, <<meta("keywords", s_Adaptation)>>)}

Init ==
    /\ pc = "parse_args"
    /\ arg = None
    /\ retval = None
    /\ args_clusters \in ArgsClusters
    /\ project_csv \in ProjectTables
    /\ euroscivoc_df \in PipelineKeywordTables
    /\ clusters = None
    /\ project_df = <<>>
    /\ euroscivoc_keywords = None
    /\ row = 0
    /\ fetched = <<>>
    /\ before_filter = None
    /\ out_file = None
    /\ FetchIdle

\* lines 76-87
parse_args ==
    /\ pc = "parse_args"
    /\ LET parsed == parse_clusters(args_clusters)
       IN  IF parsed.tag = "raise"
           THEN pc' = "parser_error" /\ UNCHANGED clusters
           ELSE pc' = "read_project" /\ clusters' = parsed
    /\ UNCHANGED <<arg, retval, args_clusters, project_df, euroscivoc_df,
                   euroscivoc_keywords, row, fetched, before_filter, project_csv, out_file>>
    /\ UNCHANGED fetch_vars

\* lines 89-97
read_project ==
    /\ pc = "read_project"
    /\ project_df' = project_csv
    /\ pc' = "convert"
    /\ UNCHANGED <<arg, retval, args_clusters, clusters, euroscivoc_df,
                   euroscivoc_keywords, row, fetched, before_filter, project_csv, out_file>>
    /\ UNCHANGED fetch_vars

\* line 100
convert_contributions ==
    /\ pc = "convert"
    /\ project_df' = [i \in 1..Len(project_df) |->
            [project_df[i] EXCEPT !.ecMaxContribution = convert_to_float(@)]]
    /\ pc' = "classify"
    /\ UNCHANGED <<arg, retval, args_clusters, clusters, euroscivoc_df,
                   euroscivoc_keywords, row, fetched, before_filter, project_csv, out_file>>
    /\ UNCHANGED fetch_vars

\* line 103: an IndexError of get_cluster ends the program
classify ==
    /\ pc = "classify"
    /\ IF \E i \in 1..Len(project_df) : get_cluster(project_df[i].topics).tag = "raise"
       THEN pc' = "IndexError" /\ UNCHANGED project_df
       ELSE /\ pc' = "filter"
            /\ project_df' = [i \in 1..Len(project_df) |->
                    with_column(project_df[i], "cluster", get_cluster(project_df[i].topics).val)]
    /\ UNCHANGED <<arg, retval, args_clusters, clusters, euroscivoc_df,
                   euroscivoc_keywords, row, fetched, before_filter, project_csv, out_file>>
    /\ UNCHANGED fetch_vars

\* lines 104-105
filter_clusters ==
    /\ pc = "filter"
    /\ before_filter' = project_df
    /\ project_df' = filter_rows(project_df, clusters)
    /\ pc' = "join"
    /\ UNCHANGED <<arg, retval, args_clusters, clusters, euroscivoc_df,
                   euroscivoc_keywords, row, fetched, project_csv, out_file>>
    /\ UNCHANGED fetch_vars

\* lines 109-111
join_keywords ==
    /\ pc = "join"
    /\ euroscivoc_keywords' = groupby_apply_list(euroscivoc_df)
    /\ project_df' = merge_left(project_df, euroscivoc_keywords')
    /\ pc' = "apply"
    /\ UNCHANGED <<arg, retval, args_clusters, clusters, euroscivoc_df,
                   row, fetched, before_filter, project_csv, out_file>>
    /\ UNCHANGED fetch_vars

\* line 115: progress_apply calls get_cordis_keywords(row.id) for the next row
apply_call ==
    /\ pc = "apply"
    /\ row < Len(project_df)
    /\ arg' = project_df[row + 1].id
    /\ fetched' = Append(fetched, arg')
    /\ pc' = "get"
    /\ UNCHANGED <<retval, args_clusters, clusters, project_df, euroscivoc_df,
                   euroscivoc_keywords, row, before_filter, project_csv, out_file>>
    /\ UNCHANGED fetch_vars

\* line 115: the value returned becomes the row's cordis_keywords; the locals of
\* the call are gone
apply_store ==
    /\ pc = "returned"
    /\ project_df' = [project_df EXCEPT
            ![row + 1] = with_column(@, "cordis_keywords", retval)]
    /\ row' = row + 1
    /\ attempts' = 0
    /\ res' = None
    /\ history' = <<>>
    /\ retval' = None
    /\ pc' = "apply"
    /\ UNCHANGED <<arg, args_clusters, clusters, euroscivoc_df,
                   euroscivoc_keywords, fetched, before_filter, project_csv, out_file>>

\* line 115: every row is done.  Of a table without rows apply returns an empty
\* frame, not a series, and whether the column can be set from it depends on
\* the pandas installed: the program goes on to write, or ends with ValueError.
apply_done ==
    /\ pc = "apply"
    /\ row = Len(project_df)
    /\ pc' \in IF project_df = <<>> THEN {"write", "ValueError"} ELSE {"write"}
    /\ UNCHANGED <<arg, retval, args_clusters, clusters, project_df, euroscivoc_df,
                   euroscivoc_keywords, row, fetched, before_filter, project_csv, out_file>>
    /\ UNCHANGED fetch_vars

\* lines 117-123
write_csv ==
    /\ pc = "write"
    /\ out_file' = project_df
    /\ pc' = "done"
    /\ UNCHANGED <<arg, retval, args_clusters, clusters, project_df, euroscivoc_df,
                   euroscivoc_keywords, row, fetched, before_filter, project_csv>>
    /\ UNCHANGED fetch_vars

PipelineGet == requests_get(PipelineOutcomes)

Next ==
    \/ parse_args
    \/ read_project
    \/ convert_contributions
    \/ classify
    \/ filter_clusters
    \/ join_keywords
    \/ apply_call
    \/ PipelineGet
    \/ cordis_return
    \/ apply_store
    \/ apply_done
    \/ write_csv

Spec == Init /\ [][Next]_vars


(***************************************************************************)
(* The claims about the pipeline, checked under Spec.                      *)
(***************************************************************************)
ids(df) == [i \in 1..Len(df) |-> df[i].id]

ExampleInput ==
    /\ project_csv = <<ExampleRow>>
    /\ euroscivoc_df = ExampleKeywords
    /\ args_clusters = <<"1">>

ExampleOutputRow ==
    [id |-> s_P1,
     ecMaxContribution |-> PyFloat(123456, 2),
     topics |-> s_topic,
     cluster |-> s_HORIZON \o <<"-">> \o s_CL1,
     euroscivoc_keywords |-> PyList(<<s_Climate>>),
     cordis_keywords |-> PyList(<<s_Adaptation>>)]

\* C4: the end-to-end example: the row P1 with topic "HORIZON-CL1-01-02" and
\* contribution "1.234,56", the keyword entry (P1, "Climate"), the cluster filter
\* 1 and every remote fetch returning ["Adaptation"] give exactly one output row:
\* P1, 1234.56, "HORIZON-CL1", ["Climate"], ["Adaptation"].
C4_EndToEndExample ==
    (/\ pc = "done"
     /\ ExampleInput
     /\ \A i \in 1..Len(out_file) : out_file[i].cordis_keywords = PyList(<<s_Adaptation>>)) =>
        out_file = <<ExampleOutputRow>>

\* C8 as stated: with --clusters "all" or empty, the filter step leaves the table
\* as it found it.
C8_FilterNoOpWhenAllOrEmpty ==
    (pc = "join" /\ args_clusters \in {s_all, <<>>}) => project_df = before_filter

\* C8 as amended: with --clusters "all" the filter step leaves the table as it
\* found it, every record in its place; with the empty selection it removes
\* every record.
C8_FilterNoOpWhenAll ==
    pc = "join" =>
        /\ args_clusters = s_all => project_df = before_filter
        /\ args_clusters = <<>> => project_df = <<>>

C8_Witness ==
    /\ pc = "join"
    /\ args_clusters = s_all
    /\ Len(before_filter) = 2
    /\ before_filter[1].id # before_filter[2].id
    /\ project_df = before_filter

Survives(r) == clusters = PyStr(s_all) \/ \E i \in 1..Len(clusters.val) : clusters.val[i] = r.cluster
BeforeFetching ==
    {"parse_args", "read_project", "convert", "classify", "filter", "join",
     "parser_error", "IndexError"}
InFetcher == {"get", "check", "returned"}
RemoteOutcome(v) == v.tag = "list" \/ v \in {PyStr(s_ERROR), PyStr(s_NOT_FOUND)}

\* C9: get_cordis_keywords is called once per record that survived the filter, in
\* table order, and not before normalize, classify, filter and join are done for
\* the whole table; the output has one row per surviving record, in order, each
\* with one cluster label and one remote outcome (a list, "ERROR" or "NOT FOUND").
C9_OneFetchPerSurvivorInOrder ==
    /\ pc \in BeforeFetching => (fetched = <<>> /\ attempts = 0)
    /\ pc \notin BeforeFetching =>
        /\ ids(project_df) = ids(SelectSeq(before_filter, Survives))
        /\ \A i \in 1..Len(project_df) :
            /\ {"cluster", "euroscivoc_keywords"} \subseteq DOMAIN project_df[i]
            /\ project_df[i].ecMaxContribution.tag # "nan"
            /\ "cordis_keywords" \in DOMAIN project_df[i] <=> i <= row
            /\ i <= row => RemoteOutcome(project_df[i].cordis_keywords)
        /\ Len(fetched) = IF pc \in InFetcher THEN row + 1 ELSE row
        /\ Len(fetched) <= Len(project_df)
        /\ \A i \in 1..Len(fetched) : fetched[i] = project_df[i].id
        /\ pc \in InFetcher => arg = project_df[row + 1].id
    /\ pc = "done" =>
        /\ out_file = project_df
        /\ fetched = ids(out_file)
        /\ Len(out_file) = Len(SelectSeq(before_filter, Survives))
    /\ pc # "done" => out_file = None

C9_Witness ==
    /\ pc = "done"
    /\ args_clusters = <<"1", "2">>
    /\ Len(before_filter) = 2
    /\ ~Survives(before_filter[1])
    /\ Len(out_file) = 1
    /\ fetched = <<s_P2>>
    /\ out_file[1].cordis_keywords = PyList(<<s_Adaptation>>)
    /\ out_file[1].cluster = s_CL2

=============================================================================
